---- MODULE Spec2Model ----
(***************************************************************************)
(* TransportationOptimizer.solve of distribution_optimizer.py: the route   *)
(* filter, the constraint assembler, the cost and time programs, the       *)
(* external MILP solver's contract and the extraction of the two results.  *)
(***************************************************************************)
EXTENDS Integers, Sequences, FiniteSets, TLC

VARIABLES
    routes,        \* data_loader.routes: rows in catalog order
    warehouses,    \* data_loader.warehouses
    modes,         \* data_loader.modes
    input_data,    \* the OptimizationInput handed to solve
    pc,            \* position inside solve
    cost_model,    \* build_cost_model's return value (None or the program)
    cost_run,      \* cost_model.status and the varValue of cost_vars
    time_model,    \* build_time_model's return value (None or the program)
    time_run,      \* time_model.status and the varValue of time_vars, max_time_var
    solver_calls,  \* names of the programs handed to the solver, in order
    results,       \* the results dict of solve
    files,         \* dataset/*.csv: unreadable, or the columns of the file
    columns,       \* df.columns of each DataLoader attribute, None while unset
    load_result,   \* what load_data returned, None before the call
    main_pc,       \* position inside main
    calls          \* load_data, st.error, get_user_input, solve as main reaches them

vars == <<routes, warehouses, modes, input_data, pc, cost_model, cost_run,
          time_model, time_run, solver_calls, results,
          files, columns, load_result, main_pc, calls>>

catalog == <<routes, warehouses, modes>>

app == <<files, columns, load_result, main_pc, calls>>

----------------------------------------------------------------------------
(* Bounds of the generic instances *)

MaxRoutes == 2
MaxDemand == 4

(* 1 / 0.0001: the tolerance of the Route_Used_Lower rows; variable values  *)
(* are kept in fixed point with this denominator (varValue * Scale).        *)
Scale == 10000

----------------------------------------------------------------------------
(* Generic helpers *)

None == <<>>
Some(x) == <<x>>

EmptyDict == [x \in {} |-> x]

SeqToSet(s) == {s[i] : i \in 1..Len(s)}

BoundedSeq(S, n) == UNION {[1..k -> S] : k \in 0..n}

RECURSIVE SumOver(_, _)
SumOver(S, f) ==
    IF S = {} THEN 0
    ELSE LET x == CHOOSE y \in S : TRUE
         IN  f[x] + SumOver(S \ {x}, f)

SetMax(S) == CHOOSE x \in S : \A y \in S : y <= x

PyMax(a, b) == IF b > a THEN b ELSE a

----------------------------------------------------------------------------
(* Catalogs and inputs *)

WarehouseNames == {"A", "B"}
ModeNames == {"Truck", "Rail"}

Route(d, m, l, c) ==
    [destination |-> d, mode_name |-> m, lead_time |-> l, total_cost |-> c]
Warehouse(n, c, s) == [warehouse_name |-> n, capacity |-> c, stock_level |-> s]
Mode(n, w) == [mode_name |-> n, weight_capacity |-> w]

(* Rows the generic catalogs are built from; two of them share (A, Truck), *)
(* and the slow row to B costs more per ton than the fast row to A.       *)
RoutePool ==
    { Route("A", "Truck", 1, 3),
      Route("A", "Rail",  2, 2),
      Route("B", "Truck", 2, 4),
      Route("A", "Truck", 2, 1) }

GenericModes == <<Mode("Truck", 1), Mode("Rail", 2)>>

(* B's stock is below or above its capacity. *)
GenericWarehouses ==
    { <<Warehouse("A", 5, 1), Warehouse("B", 3, s)>> : s \in {1, 4} }

EdgePool == {<<r.destination, r.mode_name>> : r \in RoutePool}
VehicleLimits == {1, 4}

PartialMaps(D, R) == UNION {[K -> R] : K \in SUBSET D}

OptimizationInput(d, t, s, v) ==
    [total_demand |-> d, max_delivery_time |-> t,
     selected_warehouses |-> s, max_vehicles |-> v]

GenericInputs ==
    { OptimizationInput(d, t, s, v) :
        d \in 1..MaxDemand, t \in {1, 2}, s \in SUBSET WarehouseNames,
        v \in PartialMaps(EdgePool, VehicleLimits) }

(* The catalog and input of Scenario A and Scenario B. *)
ScenarioWarehouses == <<Warehouse("A", 1000, 200), Warehouse("B", 500, 0)>>
ScenarioModes == <<Mode("Truck", 10), Mode("Rail", 50)>>
ScenarioRoutes ==
    << Route("A", "Rail", 5, 80), Route("A", "Truck", 2, 100),
       Route("B", "Truck", 1, 120) >>
ScenarioInput ==
    OptimizationInput(300, 5, {"A", "B"},
        (<<"A", "Rail">> :> 10) @@ (<<"A", "Truck">> :> 20) @@ (<<"B", "Truck">> :> 15))

IsScenario ==
    /\ routes = ScenarioRoutes
    /\ warehouses = ScenarioWarehouses
    /\ modes = ScenarioModes
    /\ input_data = ScenarioInput

----------------------------------------------------------------------------
(* _get_valid_routes *)

(* str.strip() of a name: the padded spellings lose their blanks. *)
Strip(s) ==
    CASE s = " A" -> "A"
      [] s = "A " -> "A"
      [] s = " B" -> "B"
      [] s = "B " -> "B"
      [] OTHER -> s

(* Variant: the lead-time test is strict. *)
RouteIsValid_StrictLeadTime(route, inp) ==
    LET wh == Strip(route.destination)
        mode == Strip(route.mode_name)
    IN  /\ wh \in inp.selected_warehouses
        /\ route.lead_time < inp.max_delivery_time
        /\ <<wh, mode>> \in DOMAIN inp.max_vehicles

RouteIsValid(route, inp) ==
    LET wh == Strip(route.destination)
        mode == Strip(route.mode_name)
    IN  /\ wh \in inp.selected_warehouses
        /\ route.lead_time <= inp.max_delivery_time
        /\ <<wh, mode>> \in DOMAIN inp.max_vehicles

RECURSIVE ValidRoutesFrom(_, _, _)
ValidRoutesFrom(rs, inp, i) ==
    IF i > Len(rs) THEN <<>>
    ELSE LET route == rs[i]
             rest == ValidRoutesFrom(rs, inp, i + 1)
         IN  IF RouteIsValid(route, inp)
             THEN << <<Strip(route.destination), Strip(route.mode_name),
                       route.total_cost>> >> \o rest
             ELSE rest

GetValidRoutes(rs, inp) == ValidRoutesFrom(rs, inp, 1)

(* The keys of a dict built from valid_routes, in insertion order. *)
RECURSIVE DictKeys(_, _)
DictKeys(valid_routes, i) ==
    IF i = 0 THEN <<>>
    ELSE LET before == DictKeys(valid_routes, i - 1)
             k == <<valid_routes[i][1], valid_routes[i][2]>>
         IN  IF k \in SeqToSet(before) THEN before ELSE Append(before, k)

(* {(wh, mode): cost for wh, mode, cost in valid_routes}: a later row      *)
(* with the same key overwrites the earlier one.                            *)
RouteCosts(valid_routes) ==
    LET keys == SeqToSet(DictKeys(valid_routes, Len(valid_routes)))
        last(k) == SetMax({i \in 1..Len(valid_routes) :
                              <<valid_routes[i][1], valid_routes[i][2]>> = k})
    IN  [k \in keys |-> valid_routes[last(k)][3]]

(* routes[(destination == wh) & (mode_name == mode)].iloc[0] *)
MatchingRows(rs, wh, mode) ==
    {i \in 1..Len(rs) : rs[i].destination = wh /\ rs[i].mode_name = mode}

FirstRow(rs, wh, mode) ==
    rs[CHOOSE i \in MatchingRows(rs, wh, mode) :
           \A j \in MatchingRows(rs, wh, mode) : i <= j]

----------------------------------------------------------------------------
(* _add_constraints *)

(* {row['warehouse_name']: {...} for row in warehouses}: last row wins *)
WarehouseInfo(whs) ==
    LET names == {whs[i].warehouse_name : i \in 1..Len(whs)}
        last(n) == SetMax({i \in 1..Len(whs) : whs[i].warehouse_name = n})
    IN  [n \in names |-> [capacity |-> whs[last(n)].capacity,
                          stock_level |-> whs[last(n)].stock_level]]

(* dict(zip(modes['mode_name'], modes['weight_capacity'])) *)
VehicleCapacities(ms) ==
    LET names == {ms[i].mode_name : i \in 1..Len(ms)}
        last(n) == SetMax({i \in 1..Len(ms) : ms[i].mode_name = n})
    IN  [n \in names |-> ms[last(n)].weight_capacity]

AvailableCapacity(info) == PyMax(0, info.capacity - info.stock_level)

(* Variant: the demand row counts vehicles, not their weight. *)
DemandRow_Unweighted(keys, ms, inp) ==
    [coef |-> [e \in keys |-> 1], rhs |-> inp.total_demand]

(* 1. Total_Demand: sum shipments[e] * coef[e] >= rhs *)
DemandRow(keys, ms, inp) ==
    [coef |-> [e \in keys |-> VehicleCapacities(ms)[e[2]]],
     rhs |-> inp.total_demand]

(* Variant: no capacity row is added. *)
CapacityRows_None(keys, whs, ms, inp) == EmptyDict

(* 2. Capacity_<wh>: sum over the edges into wh of shipments[e] * coef[e] <= rhs *)
CapacityRows(keys, whs, ms, inp) ==
    LET warehouse_info == WarehouseInfo(whs)
    IN  [wh \in inp.selected_warehouses \cap DOMAIN warehouse_info |->
            [coef |-> [e \in {k \in keys : k[1] = wh} |-> VehicleCapacities(ms)[e[2]]],
             rhs |-> AvailableCapacity(warehouse_info[wh])]]

(* Variant: no ceiling row is added. *)
CeilingRows_None(keys, inp) == EmptyDict

(* Variant: every ceiling is one vehicle too high. *)
CeilingRows_OffByOne(keys, inp) ==
    [e \in DOMAIN inp.max_vehicles \cap keys |-> inp.max_vehicles[e] + 1]

(* 3. Max_Vehicles_<wh>_<mode>: shipments[e] <= max_veh *)
CeilingRows(keys, inp) ==
    [e \in DOMAIN inp.max_vehicles \cap keys |-> inp.max_vehicles[e]]

AddConstraints(keys, whs, ms, inp) ==
    [demand |-> DemandRow(keys, ms, inp),
     capacity |-> CapacityRows(keys, whs, ms, inp),
     ceiling |-> CeilingRows(keys, inp)]

----------------------------------------------------------------------------
(* build_cost_model, build_time_model *)

(* Variant: the objective counts vehicles (the cost factor is missing). *)
BuildCostModel_CountObjective(rs, whs, ms, inp) ==
    LET valid_routes == GetValidRoutes(rs, inp)
        route_costs == RouteCosts(valid_routes)
    IN  IF valid_routes = <<>> THEN None
        ELSE Some([name |-> "Cost_Minimization",
                   keys |-> DictKeys(valid_routes, Len(valid_routes)),
                   objective |-> [e \in DOMAIN route_costs |-> 1],
                   rows |-> AddConstraints(DOMAIN route_costs, whs, ms, inp)])

(* Variant: the program is built even when valid_routes is empty. *)
BuildCostModel_NoShortCircuit(rs, whs, ms, inp) ==
    LET valid_routes == GetValidRoutes(rs, inp)
        route_costs == RouteCosts(valid_routes)
    IN  Some([name |-> "Cost_Minimization",
              keys |-> DictKeys(valid_routes, Len(valid_routes)),
              objective |-> route_costs,
              rows |-> AddConstraints(DOMAIN route_costs, whs, ms, inp)])

BuildCostModel(rs, whs, ms, inp) ==
    LET valid_routes == GetValidRoutes(rs, inp)
        route_costs == RouteCosts(valid_routes)
    IN  IF valid_routes = <<>> THEN None
        ELSE Some([name |-> "Cost_Minimization",
                   keys |-> DictKeys(valid_routes, Len(valid_routes)),
                   objective |-> route_costs,
                   rows |-> AddConstraints(DOMAIN route_costs, whs, ms, inp)])

(* M = max(lead_times.values()) + 1 *)
BigM(lead_times) == SetMax({lead_times[e] : e \in DOMAIN lead_times}) + 1

BuildTimeModel(rs, whs, ms, inp) ==
    LET valid_routes == GetValidRoutes(rs, inp)
        route_info == RouteCosts(valid_routes)
        lead_times == [e \in DOMAIN route_info |-> FirstRow(rs, e[1], e[2]).lead_time]
    IN  IF valid_routes = <<>> THEN None
        ELSE Some([name |-> "Time_Minimization",
                   keys |-> DictKeys(valid_routes, Len(valid_routes)),
                   lead_times |-> lead_times,
                   M |-> BigM(lead_times),
                   rows |-> AddConstraints(DOMAIN route_info, whs, ms, inp)])

----------------------------------------------------------------------------
(* The solver collaborator: model.solve() on a program of integer          *)
(* shipments (lowBound 0), binary route_used and continuous max_time.      *)

SetMin(S) == CHOOSE x \in S : \A y \in S : x <= y

(* An upper end for the enumeration of shipments[e]: one past the edge's   *)
(* ceiling row, or the demand for an edge that has none.                    *)
BoxTop(rows, e) ==
    IF e \in DOMAIN rows.ceiling THEN rows.ceiling[e] + 1 ELSE rows.demand.rhs

ShipmentBox(rows, keys) ==
    LET top == SetMax({0} \cup {BoxTop(rows, e) : e \in keys})
    IN  {s \in [keys -> 0..top] : \A e \in keys : s[e] <= BoxTop(rows, e)}

Weight(row, s) ==
    SumOver(DOMAIN row.coef, [e \in DOMAIN row.coef |-> s[e] * row.coef[e]])

DemandHolds(rows, s) == Weight(rows.demand, s) >= rows.demand.rhs

CapacityHolds(rows, s) ==
    \A wh \in DOMAIN rows.capacity :
        Weight(rows.capacity[wh], s) <= rows.capacity[wh].rhs

CeilingHolds(rows, s) ==
    \A e \in DOMAIN rows.ceiling : s[e] <= rows.ceiling[e]

RowsHold(rows, s) ==
    /\ CeilingHolds(rows, s)
    /\ CapacityHolds(rows, s)
    /\ DemandHolds(rows, s)

CostObjective(program, s) ==
    SumOver(DOMAIN program.objective,
            [e \in DOMAIN program.objective |-> s[e] * program.objective[e]])

CostFeasible(program) ==
    {s \in ShipmentBox(program.rows, SeqToSet(program.keys)) :
        RowsHold(program.rows, s)}

(* Variant: the Route_Used_Upper rows are missing. *)
LinkHolds_NoUpper(program, s, u) ==
    \A e \in SeqToSet(program.keys) : u[e] * 1 <= s[e] * Scale

(* Route_Used_Lower: route_used * 0.0001 <= shipments (both sides times    *)
(* Scale); Route_Used_Upper: route_used * M >= shipments.                   *)
LinkHolds(program, s, u) ==
    \A e \in SeqToSet(program.keys) :
        /\ u[e] * 1 <= s[e] * Scale
        /\ u[e] * program.M >= s[e]

(* Variant: max_time >= lead_time for every edge, used or not. *)
LeastMaxTime_Unconditional(program, u) ==
    SetMax({0} \cup {program.lead_times[e] : e \in SeqToSet(program.keys)})

(* Max_Time rows and lowBound=0: the least max_time that                   *)
(* max_time >= lead_time - M * (1 - route_used) allows.                     *)
LeastMaxTime(program, u) ==
    SetMax({0} \cup {program.lead_times[e] - program.M * (1 - u[e]) :
                        e \in SeqToSet(program.keys)})

TimeFeasible(program) ==
    LET keys == SeqToSet(program.keys)
        F == {s \in ShipmentBox(program.rows, keys) : RowsHold(program.rows, s)}
    IN  {a \in [shipments : F, route_used : [keys -> {0, 1}]] :
            LinkHolds(program, a.shipments, a.route_used)}

FixedPoint(s) == [e \in DOMAIN s |-> s[e] * Scale]

(* What solve() can leave behind for the cost program. *)
SolveCostOutcomes(program) ==
    LET F == CostFeasible(program)
        best == SetMin({CostObjective(program, s) : s \in F})
    IN  IF F = {} THEN {[status |-> "Infeasible", varValue |-> None]}
        ELSE {[status |-> "Optimal", varValue |-> Some(FixedPoint(s))] :
                 s \in {t \in F : CostObjective(program, t) = best}}

(* What solve() can leave behind for the time program. *)
SolveTimeOutcomes(program) ==
    LET F == TimeFeasible(program)
        best == SetMin({LeastMaxTime(program, a.route_used) : a \in F})
    IN  IF F = {}
        THEN {[status |-> "Infeasible", varValue |-> None, max_time |-> None]}
        ELSE {[status |-> "Optimal",
               varValue |-> Some(FixedPoint(a.shipments)),
               max_time |-> Some(best * Scale)] :
                 a \in {b \in F : LeastMaxTime(program, b.route_used) = best}}

----------------------------------------------------------------------------
(* Extraction in solve *)

(* int(var.varValue): truncation toward zero *)
IntOf(v) == IF v >= 0 THEN v \div Scale ELSE -((-v) \div Scale)

(* solution[wh][mode] = val, creating solution[wh] when it is missing *)
SetEntry(solution, wh, mode, val) ==
    LET inner == IF wh \in DOMAIN solution THEN solution[wh] ELSE EmptyDict
    IN  (wh :> ((mode :> val) @@ inner)) @@ solution

(* Variant: the cost of a row is added once, not once per vehicle. *)
RECURSIVE CollectShipments_UnitCost(_, _, _, _)
CollectShipments_UnitCost(rs, keys, varValue, i) ==
    IF i = 0 THEN [solution |-> EmptyDict, total_cost |-> 0]
    ELSE LET acc == CollectShipments_UnitCost(rs, keys, varValue, i - 1)
             wh == keys[i][1]
             mode == keys[i][2]
             val == IntOf(varValue[keys[i]])
         IN  IF val > 0
             THEN [solution |-> SetEntry(acc.solution, wh, mode, val),
                   total_cost |-> acc.total_cost
                                    + FirstRow(rs, wh, mode).total_cost]
             ELSE acc

(* Variant: zero counts are stored too. *)
RECURSIVE CollectShipments_KeepsZeros(_, _, _, _)
CollectShipments_KeepsZeros(rs, keys, varValue, i) ==
    IF i = 0 THEN [solution |-> EmptyDict, total_cost |-> 0]
    ELSE LET acc == CollectShipments_KeepsZeros(rs, keys, varValue, i - 1)
             wh == keys[i][1]
             mode == keys[i][2]
             val == IntOf(varValue[keys[i]])
         IN  IF val >= 0
             THEN [solution |-> SetEntry(acc.solution, wh, mode, val),
                   total_cost |-> acc.total_cost
                                    + val * FirstRow(rs, wh, mode).total_cost]
             ELSE acc

(* The loop over vars.items(): solution and total_cost after i iterations *)
RECURSIVE CollectShipments(_, _, _, _)
CollectShipments(rs, keys, varValue, i) ==
    IF i = 0 THEN [solution |-> EmptyDict, total_cost |-> 0]
    ELSE LET acc == CollectShipments(rs, keys, varValue, i - 1)
             wh == keys[i][1]
             mode == keys[i][2]
             val == IntOf(varValue[keys[i]])
         IN  IF val > 0
             THEN [solution |-> SetEntry(acc.solution, wh, mode, val),
                   total_cost |-> acc.total_cost
                                    + val * FirstRow(rs, wh, mode).total_cost]
             ELSE acc

(* Variant: every edge of the program counts, used or not. *)
RECURSIVE CollectMaxLeadTime_AllEdges(_, _, _, _)
CollectMaxLeadTime_AllEdges(rs, keys, varValue, i) ==
    IF i = 0 THEN 0
    ELSE PyMax(CollectMaxLeadTime_AllEdges(rs, keys, varValue, i - 1),
               FirstRow(rs, keys[i][1], keys[i][2]).lead_time)

(* The second loop of the time branch: max_lead_time after i iterations *)
RECURSIVE CollectMaxLeadTime(_, _, _, _)
CollectMaxLeadTime(rs, keys, varValue, i) ==
    IF i = 0 THEN 0
    ELSE LET before == CollectMaxLeadTime(rs, keys, varValue, i - 1)
             wh == keys[i][1]
             mode == keys[i][2]
         IN  IF varValue[keys[i]] > 0
             THEN PyMax(before, FirstRow(rs, wh, mode).lead_time)
             ELSE before

(* Variant: the no-model result reports a total of 0. *)
CostNoModelResult_ZeroCost ==
    [status |-> "Infeasible", solution |-> EmptyDict, total_cost |-> Some(0)]

CostNoModelResult ==
    [status |-> "Infeasible", solution |-> EmptyDict, total_cost |-> None]

CostOptimalResult(rs, program, run) ==
    LET got == CollectShipments(rs, program.keys, run.varValue[1], Len(program.keys))
    IN  [status |-> "Optimal", solution |-> got.solution,
         total_cost |-> Some(got.total_cost)]

CostOtherResult(run) ==
    [status |-> run.status, solution |-> EmptyDict, total_cost |-> None]

TimeNoModelResult ==
    [status |-> "Infeasible", solution |-> EmptyDict,
     max_delivery_time |-> None, total_cost |-> None]

TimeOptimalResult(rs, program, run) ==
    LET got == CollectShipments(rs, program.keys, run.varValue[1], Len(program.keys))
        max_lead_time ==
            CollectMaxLeadTime(rs, program.keys, run.varValue[1], Len(program.keys))
    IN  [status |-> "Optimal", solution |-> got.solution,
         max_lead_time |-> Some(max_lead_time),
         total_cost |-> Some(got.total_cost)]

(* Variant: the key of the no-model branch is used. *)
TimeOtherResult_DeliveryTimeKey(run) ==
    [status |-> run.status, solution |-> EmptyDict,
     max_delivery_time |-> None, total_cost |-> None]

TimeOtherResult(run) ==
    [status |-> run.status, solution |-> EmptyDict,
     max_lead_time |-> None, total_cost |-> None]

----------------------------------------------------------------------------
(* DataLoader.load_data and _validate_data *)

(* The attributes in the order load_data reads them and _validate_data     *)
(* visits them.                                                            *)
TableOrder == <<"warehouses", "plants", "modes", "routes">>

TableNames == SeqToSet(TableOrder)

IndexOf(t) == CHOOSE i \in 1..Len(TableOrder) : TableOrder[i] = t

required_columns ==
    [warehouses |-> {"warehouse_name", "capacity", "stock_level"},
     plants |-> {"plant_name", "capacity", "stock_level"},
     modes |-> {"mode_name", "weight_capacity"},
     routes |-> {"origin", "destination", "mode_name", "lead_time (days)",
                 "total_cost"}]

(* A file is unreadable (None: pd.read_csv raises) or has its columns, all *)
(* of them or all but one.                                                 *)
FileStates(t) ==
    {None, Some(required_columns[t])}
        \cup {Some(required_columns[t] \ {c}) : c \in required_columns[t]}

AllFiles ==
    [warehouses : FileStates("warehouses"), plants : FileStates("plants"),
     modes : FileStates("modes"), routes : FileStates("routes")]

(* The reads run in order; the first one that raises leaves the later      *)
(* attributes at None.                                                     *)
LoadedColumns(f) ==
    [t \in TableNames |->
        IF \E u \in TableNames : IndexOf(u) <= IndexOf(t) /\ f[u] = None
        THEN None
        ELSE f[t]]

(* missing = set(columns) - set(df.columns); if missing: raise ValueError *)
ValidateRaises(cols) ==
    \E t \in TableNames : required_columns[t] \ cols[t][1] # {}

(* load_data returns True iff no read raised and _validate_data did not. *)
LoadSucceeds(f) ==
    /\ \A t \in TableNames : f[t] # None
    /\ ~ValidateRaises(LoadedColumns(f))

----------------------------------------------------------------------------
(* solve, step by step *)

Init ==
    /\ \/ /\ routes \in BoundedSeq(RoutePool, MaxRoutes)
          /\ warehouses \in GenericWarehouses
          /\ modes = GenericModes
          /\ input_data \in GenericInputs
       \/ /\ routes = ScenarioRoutes
          /\ warehouses = ScenarioWarehouses
          /\ modes = ScenarioModes
          /\ input_data = ScenarioInput
    /\ pc = "start"
    /\ cost_model = None
    /\ cost_run = None
    /\ time_model = None
    /\ time_run = None
    /\ solver_calls = <<>>
    /\ results = EmptyDict
    /\ files = [t \in TableNames |-> Some(required_columns[t])]
    /\ columns = LoadedColumns(files)
    /\ load_result = Some(LoadSucceeds(files))
    /\ main_pc = "solve"
    /\ calls = <<"load_data", "get_user_input", "solve">>

(* main hands the input to solve only after load_data and get_user_input. *)
(* cost_model, cost_vars = self.build_cost_model(input_data) *)
BuildCost ==
    /\ pc = "start"
    /\ cost_model' = BuildCostModel(routes, warehouses, modes, input_data)
    /\ pc' = "cost_built"
    /\ UNCHANGED <<app, catalog, input_data, cost_run, time_model, time_run,
                   solver_calls, results>>

(* if cost_model is None or cost_vars is None: *)
CostNoModel ==
    /\ pc = "cost_built"
    /\ cost_model = None
    /\ results' = ("cost_optimization" :> CostNoModelResult) @@ results
    /\ pc' = "time_build"
    /\ UNCHANGED <<app, catalog, input_data, cost_model, cost_run, time_model,
                   time_run, solver_calls>>

(* cost_model.solve() *)
SolveCost ==
    /\ pc = "cost_built"
    /\ cost_model # None
    /\ \E out \in SolveCostOutcomes(cost_model[1]) : cost_run' = out
    /\ solver_calls' = Append(solver_calls, cost_model[1].name)
    /\ pc' = "cost_solved"
    /\ UNCHANGED <<app, catalog, input_data, cost_model, time_model, time_run, results>>

(* if LpStatus[cost_model.status] == 'Optimal': *)
ExtractCostOptimal ==
    /\ pc = "cost_solved"
    /\ cost_run.status = "Optimal"
    /\ results' = ("cost_optimization" :>
                      CostOptimalResult(routes, cost_model[1], cost_run)) @@ results
    /\ pc' = "time_build"
    /\ UNCHANGED <<app, catalog, input_data, cost_model, cost_run, time_model,
                   time_run, solver_calls>>

(* Variant: a status other than Optimal sends the cost program back to the *)
(* solver once more.                                                       *)
CostNotOptimal_Retry ==
    /\ pc = "cost_solved"
    /\ cost_run.status # "Optimal"
    /\ IF Len(solver_calls) < 2
       THEN /\ pc' = "cost_built"
            /\ UNCHANGED results
       ELSE /\ results' = ("cost_optimization" :> CostOtherResult(cost_run)) @@ results
            /\ pc' = "time_build"
    /\ UNCHANGED <<app, catalog, input_data, cost_model, cost_run, time_model,
                   time_run, solver_calls>>

CostNotOptimal ==
    /\ pc = "cost_solved"
    /\ cost_run.status # "Optimal"
    /\ results' = ("cost_optimization" :> CostOtherResult(cost_run)) @@ results
    /\ pc' = "time_build"
    /\ UNCHANGED <<app, catalog, input_data, cost_model, cost_run, time_model,
                   time_run, solver_calls>>

(* time_model, time_vars, max_time_var = self.build_time_model(input_data) *)
BuildTime ==
    /\ pc = "time_build"
    /\ time_model' = BuildTimeModel(routes, warehouses, modes, input_data)
    /\ pc' = "time_built"
    /\ UNCHANGED <<app, catalog, input_data, cost_model, cost_run, time_run,
                   solver_calls, results>>

TimeNoModel ==
    /\ pc = "time_built"
    /\ time_model = None
    /\ results' = ("time_optimization" :> TimeNoModelResult) @@ results
    /\ pc' = "returned"
    /\ UNCHANGED <<app, catalog, input_data, cost_model, cost_run, time_model,
                   time_run, solver_calls>>

(* time_model.solve() *)
SolveTime ==
    /\ pc = "time_built"
    /\ time_model # None
    /\ \E out \in SolveTimeOutcomes(time_model[1]) : time_run' = out
    /\ solver_calls' = Append(solver_calls, time_model[1].name)
    /\ pc' = "time_solved"
    /\ UNCHANGED <<app, catalog, input_data, cost_model, cost_run, time_model, results>>

ExtractTimeOptimal ==
    /\ pc = "time_solved"
    /\ time_run.status = "Optimal"
    /\ results' = ("time_optimization" :>
                      TimeOptimalResult(routes, time_model[1], time_run)) @@ results
    /\ pc' = "returned"
    /\ UNCHANGED <<app, catalog, input_data, cost_model, cost_run, time_model,
                   time_run, solver_calls>>

TimeNotOptimal ==
    /\ pc = "time_solved"
    /\ time_run.status # "Optimal"
    /\ results' = ("time_optimization" :> TimeOtherResult(time_run)) @@ results
    /\ pc' = "returned"
    /\ UNCHANGED <<app, catalog, input_data, cost_model, cost_run, time_model,
                   time_run, solver_calls>>

Next ==
    \/ BuildCost
    \/ CostNoModel
    \/ SolveCost
    \/ ExtractCostOptimal
    \/ CostNotOptimal
    \/ BuildTime
    \/ TimeNoModel
    \/ SolveTime
    \/ ExtractTimeOptimal
    \/ TimeNotOptimal

Spec == Init /\ [][Next]_vars

----------------------------------------------------------------------------
(* main: one run of the script *)

(* The rows main works with when the files can be read. *)
MainCatalog ==
    /\ routes \in BoundedSeq(RoutePool, 1)
    /\ warehouses \in GenericWarehouses
    /\ modes = GenericModes

(* What get_user_input can return: any subset of the warehouse names and a *)
(* limit for every selected warehouse and every mode.                      *)
UserInputs ==
    UNION {
        { OptimizationInput(d, t, sel, mv) :
              d \in 1..MaxDemand, t \in {1, 2},
              mv \in [sel \X {m.mode_name : m \in SeqToSet(modes)} -> VehicleLimits] }
        : sel \in SUBSET {w.warehouse_name : w \in SeqToSet(warehouses)} }

MainInit ==
    /\ MainCatalog
    /\ files \in AllFiles
    /\ columns = [t \in TableNames |-> None]
    /\ load_result = None
    /\ main_pc = "main"
    /\ calls = <<>>
    /\ input_data = None
    /\ pc = "start"
    /\ cost_model = None
    /\ cost_run = None
    /\ time_model = None
    /\ time_run = None
    /\ solver_calls = <<>>
    /\ results = EmptyDict

SolveState == <<pc, cost_model, cost_run, time_model, time_run, solver_calls, results>>

(* try: data_loader.load_data()  -- load_data catches every exception,     *)
(* reports it with st.error and returns False, so the except branch of     *)
(* main with st.stop() is never taken; the return value is not looked at.  *)
MainLoadData ==
    /\ main_pc = "main"
    /\ columns' = LoadedColumns(files)
    /\ load_result' = Some(LoadSucceeds(files))
    /\ calls' = IF LoadSucceeds(files)
                THEN Append(calls, "load_data")
                ELSE calls \o <<"load_data", "st.error">>
    /\ main_pc' = "loaded"
    /\ UNCHANGED <<catalog, input_data, SolveState, files>>

(* self.data_loader.warehouses['warehouse_name'], .modes['mode_name'] *)
UserInputReadable ==
    /\ columns.warehouses # None /\ "warehouse_name" \in columns.warehouses[1]
    /\ columns.modes # None /\ "mode_name" \in columns.modes[1]

(* input_data = optimizer.get_user_input() *)
MainGetUserInput ==
    /\ main_pc = "loaded"
    /\ UserInputReadable
    /\ calls' = Append(calls, "get_user_input")
    /\ input_data' \in UserInputs
    /\ main_pc' = "input"
    /\ UNCHANGED <<catalog, SolveState, files, columns, load_result>>

(* get_user_input subscripts None or a missing column: TypeError/KeyError  *)
(* leaves main.                                                            *)
MainGetUserInputRaises ==
    /\ main_pc = "loaded"
    /\ ~UserInputReadable
    /\ calls' = Append(calls, "get_user_input")
    /\ main_pc' = "raised"
    /\ UNCHANGED <<catalog, input_data, SolveState, files, columns, load_result>>

(* if st.button("Jalankan Optimasi"): results = optimizer.solve(input_data) *)
MainRunClicked ==
    /\ main_pc = "input"
    /\ calls' = Append(calls, "solve")
    /\ main_pc' = "solve"
    /\ UNCHANGED <<catalog, input_data, SolveState, files, columns, load_result>>

MainNotClicked ==
    /\ main_pc = "input"
    /\ main_pc' = "done"
    /\ UNCHANGED <<catalog, input_data, SolveState, files, columns, load_result, calls>>

MainNext ==
    \/ MainLoadData
    \/ MainGetUserInput
    \/ MainGetUserInputRaises
    \/ MainRunClicked
    \/ MainNotClicked

MainSpec == MainInit /\ [][MainNext]_vars

----------------------------------------------------------------------------
(* Vocabulary of the properties, stated from the catalog and the input     *)

Returned == pc = "returned"

HasCostResult == "cost_optimization" \in DOMAIN results
HasTimeResult == "time_optimization" \in DOMAIN results
CostResult == results["cost_optimization"]
TimeResult == results["time_optimization"]

CatalogRows == SeqToSet(routes)

(* An edge is eligible iff a catalog row for it passes the three tests. *)
EligibleEdges ==
    {e \in WarehouseNames \X ModeNames :
        \E r \in CatalogRows :
            /\ r.destination = e[1]
            /\ r.mode_name = e[2]
            /\ r.destination \in input_data.selected_warehouses
            /\ r.lead_time <= input_data.max_delivery_time
            /\ e \in DOMAIN input_data.max_vehicles}

OnePerPair ==
    \A i, j \in 1..Len(routes) :
        (routes[i].destination = routes[j].destination
            /\ routes[i].mode_name = routes[j].mode_name) => i = j

WeightCapacityOf(m) ==
    (CHOOSE row \in SeqToSet(modes) : row.mode_name = m).weight_capacity

AvailableCapacityOf(w) ==
    LET row == CHOOSE x \in SeqToSet(warehouses) : x.warehouse_name = w
    IN  IF row.capacity - row.stock_level > 0
        THEN row.capacity - row.stock_level ELSE 0

(* Catalog cost and lead time of an edge (first row in catalog order). *)
EdgeRow(e) ==
    LET idx == {i \in 1..Len(routes) :
                   routes[i].destination = e[1] /\ routes[i].mode_name = e[2]}
    IN  routes[SetMin(idx)]

PlanEntries(plan) ==
    {e \in WarehouseNames \X ModeNames :
        e[1] \in DOMAIN plan /\ e[2] \in DOMAIN plan[e[1]]}

PlanWeightInto(plan, W) ==
    LET E == {e \in PlanEntries(plan) : e[1] \in W}
    IN  SumOver(E, [e \in E |-> plan[e[1]][e[2]] * WeightCapacityOf(e[2])])

PlanFeasible(plan) ==
    /\ PlanWeightInto(plan, WarehouseNames) >= input_data.total_demand
    /\ \A w \in input_data.selected_warehouses :
           PlanWeightInto(plan, {w}) <= AvailableCapacityOf(w)
    /\ \A e \in PlanEntries(plan) :
           /\ e \in DOMAIN input_data.max_vehicles
           /\ plan[e[1]][e[2]] <= input_data.max_vehicles[e]

(* Every assignment of vehicle counts to the eligible edges that meets the *)
(* demand, the warehouse capacities and the vehicle ceilings.              *)
AdmissibleAssignments ==
    LET E == EligibleEdges
        top == SetMax({0} \cup {input_data.max_vehicles[e] : e \in E})
        into(a, w) == LET Ew == {e \in E : e[1] = w}
                      IN  SumOver(Ew, [e \in Ew |-> a[e] * WeightCapacityOf(e[2])])
    IN  {a \in [E -> 0..top] :
            /\ \A e \in E : a[e] <= input_data.max_vehicles[e]
            /\ SumOver(E, [e \in E |-> a[e] * WeightCapacityOf(e[2])])
                   >= input_data.total_demand
            /\ \A w \in input_data.selected_warehouses :
                   into(a, w) <= AvailableCapacityOf(w)}

AssignmentCost(a) ==
    SumOver(DOMAIN a, [e \in DOMAIN a |-> a[e] * EdgeRow(e).total_cost])

AssignmentMaxLead(a) ==
    SetMax({0} \cup {EdgeRow(e).lead_time : e \in {k \in DOMAIN a : a[k] > 0}})

MaxShippableWeight ==
    SumOver(EligibleEdges,
            [e \in EligibleEdges |->
                input_data.max_vehicles[e] * WeightCapacityOf(e[2])])

----------------------------------------------------------------------------
(* C1: _get_valid_routes returns exactly the edges for which some catalog  *)
(* row has a selected destination, a lead time within max_delivery_time    *)
(* and a key in max_vehicles; the program built from them has these edges. *)
ReturnedEdges ==
    {<<v[1], v[2]>> : v \in SeqToSet(GetValidRoutes(routes, input_data))}

C1_ValidRoutesAreTheEligibleEdges ==
    /\ ReturnedEdges = EligibleEdges
    /\ (pc # "start" /\ cost_model # None) =>
           SeqToSet(cost_model[1].keys) = EligibleEdges
    /\ (pc # "start" /\ cost_model = None) => EligibleEdges = {}

(* A program was built although a row that is selected and fast enough    *)
(* was left out for want of a max_vehicles key.                            *)
C1_Witness ==
    /\ pc = "cost_built"
    /\ cost_model # None
    /\ \E r \in CatalogRows : <<r.destination, r.mode_name>> \notin EligibleEdges
    /\ \E r \in CatalogRows :
           /\ r.destination \in input_data.selected_warehouses
           /\ r.lead_time <= input_data.max_delivery_time
           /\ <<r.destination, r.mode_name>> \notin DOMAIN input_data.max_vehicles

(* C2: the plan of an Optimal result, cost or time, meets the demand, fits *)
(* the available capacity max(0, capacity - stock_level) of every selected *)
(* warehouse and stays within max_vehicles on every edge.                  *)
C2_OptimalPlansAreFeasible ==
    \A k \in DOMAIN results :
        results[k].status = "Optimal" => PlanFeasible(results[k].solution)

C2_Witness ==
    /\ Returned
    /\ CostResult.status = "Optimal"
    /\ TimeResult.status = "Optimal"
    /\ Cardinality(PlanEntries(TimeResult.solution)) = 2
    /\ \E w \in input_data.selected_warehouses :
           PlanWeightInto(CostResult.solution, {w}) = AvailableCapacityOf(w)
    /\ \E e \in PlanEntries(CostResult.solution) :
           CostResult.solution[e[1]][e[2]] = input_data.max_vehicles[e]

(* C3: no admissible assignment has a smaller maximum lead time over its   *)
(* used edges than the max_lead_time of an Optimal time result.            *)
C3_TimeResultIsLeadTimeMinimal ==
    (Returned /\ TimeResult.status = "Optimal") =>
        \A a \in AdmissibleAssignments :
            AssignmentMaxLead(a) >= TimeResult.max_lead_time[1]

(* C4: Scenario B: the time result is Optimal with plan B:Truck=15,        *)
(* A:Truck=15, max_lead_time 2 and total_cost 3300.                        *)
C4_ScenarioB ==
    (IsScenario /\ Returned) =>
        /\ TimeResult.status = "Optimal"
        /\ TimeResult.solution = [A |-> [Truck |-> 15], B |-> [Truck |-> 15]]
        /\ TimeResult.max_lead_time = Some(2)
        /\ TimeResult.total_cost = Some(3300)

(* C5: Scenario A: the cost result is Optimal with plan A:Rail=6 and       *)
(* total_cost 480.                                                          *)
C5_ScenarioA ==
    (IsScenario /\ HasCostResult) =>
        CostResult = [status |-> "Optimal",
                      solution |-> [A |-> [Rail |-> 6]],
                      total_cost |-> Some(480)]

C5_Witness == IsScenario /\ Returned /\ CostResult.status = "Optimal"

(* C6: with at most one route per (destination, mode), no admissible       *)
(* assignment costs less than the total_cost of an Optimal cost result.    *)
C6_CostResultIsCostMinimal ==
    (OnePerPair /\ Returned /\ CostResult.status = "Optimal") =>
        \A a \in AdmissibleAssignments :
            AssignmentCost(a) >= CostResult.total_cost[1]

(* An optimum that is not the only admissible assignment. *)
C6_Witness ==
    /\ OnePerPair
    /\ Returned
    /\ CostResult.status = "Optimal"
    /\ \E a \in AdmissibleAssignments :
           AssignmentCost(a) > CostResult.total_cost[1]

NoTotals(r) ==
    /\ r.total_cost = None
    /\ "max_lead_time" \in DOMAIN r => r.max_lead_time = None

(* C7 as stated: with no eligible edge both results carry the status       *)
(* NoEligibleRoutes, an empty plan and no totals.                          *)
C7_NoEligibleRoutesStatus ==
    (Returned /\ EligibleEdges = {}) =>
        \A k \in {"cost_optimization", "time_optimization"} :
            /\ k \in DOMAIN results
            /\ results[k].status = "NoEligibleRoutes"
            /\ results[k].solution = EmptyDict
            /\ NoTotals(results[k])

(* C7 amended: with no eligible edge both results carry the status         *)
(* Infeasible, an empty plan and no totals, and solve returns.             *)
C7_NoEligibleRoutesReportedInfeasible ==
    EligibleEdges = {} =>
        /\ pc \notin {"cost_solved", "time_solved"}
        /\ Returned => (HasCostResult /\ HasTimeResult)
        /\ HasCostResult =>
               /\ CostResult.status = "Infeasible"
               /\ CostResult.solution = EmptyDict
               /\ NoTotals(CostResult)
        /\ HasTimeResult =>
               /\ TimeResult.status = "Infeasible"
               /\ TimeResult.solution = EmptyDict
               /\ NoTotals(TimeResult)

C7_Witness ==
    /\ Returned
    /\ EligibleEdges = {}
    /\ input_data.selected_warehouses # {}
    /\ DOMAIN input_data.max_vehicles # {}
    /\ routes # <<>>

(* C8: with no eligible edge both builders return None, no program is      *)
(* built and the solver is never invoked.                                  *)
C8_NoEligibleRoutesNeverSolves ==
    EligibleEdges = {} =>
        /\ cost_model = None
        /\ time_model = None
        /\ cost_run = None
        /\ time_run = None
        /\ solver_calls = <<>>

C8_Witness ==
    /\ Returned
    /\ EligibleEdges = {}
    /\ routes # <<>>
    /\ input_data.selected_warehouses = {}

(* C9: a solver status other than Optimal is returned as it is, with an    *)
(* empty plan and no totals.                                                *)
C9_NonOptimalStatusIsPropagated ==
    /\ (cost_run # None /\ cost_run.status # "Optimal" /\ HasCostResult) =>
           CostResult = [status |-> cost_run.status, solution |-> EmptyDict,
                         total_cost |-> None]
    /\ (time_run # None /\ time_run.status # "Optimal" /\ HasTimeResult) =>
           TimeResult = [status |-> time_run.status, solution |-> EmptyDict,
                         max_lead_time |-> None, total_cost |-> None]

C9_Witness ==
    /\ Returned
    /\ cost_run # None
    /\ time_run # None
    /\ cost_run.status = "Infeasible"
    /\ TimeResult.status = "Infeasible"

(* C10: with an eligible edge and a demand above the weight that the       *)
(* eligible edges can carry at their ceilings, both results are Infeasible *)
(* with an empty plan.                                                      *)
C10_DemandAboveCeilingsIsInfeasible ==
    (Returned /\ EligibleEdges # {}
        /\ input_data.total_demand > MaxShippableWeight) =>
        /\ CostResult.status = "Infeasible"
        /\ CostResult.solution = EmptyDict
        /\ TimeResult.status = "Infeasible"
        /\ TimeResult.solution = EmptyDict

C10_Witness ==
    /\ Returned
    /\ Cardinality(EligibleEdges) = 2
    /\ input_data.total_demand = MaxShippableWeight + 1
    /\ CostResult.status = "Infeasible"

PlanCost(plan) ==
    LET E == PlanEntries(plan)
    IN  SumOver(E, [e \in E |-> plan[e[1]][e[2]] * EdgeRow(e).total_cost])

PlanMaxLead(plan) ==
    SetMax({0} \cup {EdgeRow(e).lead_time : e \in PlanEntries(plan)})

(* C11: the total_cost of an Optimal result, cost or time, is the sum over *)
(* the plan entries of count times the catalog cost of the edge.           *)
C11_TotalCostIsRecomputedFromThePlan ==
    \A k \in DOMAIN results :
        results[k].status = "Optimal" =>
            results[k].total_cost = Some(PlanCost(results[k].solution))

(* Both results are Optimal, the time plan puts more than one vehicle on   *)
(* an edge, and the cost total is not the value of the cost program's      *)
(* objective.                                                               *)
C11_Witness ==
    /\ Returned
    /\ CostResult.status = "Optimal"
    /\ TimeResult.status = "Optimal"
    /\ \E e \in PlanEntries(TimeResult.solution) :
           TimeResult.solution[e[1]][e[2]] > 1
    /\ CostResult.total_cost[1] #
           CostObjective(cost_model[1],
                         [e \in DOMAIN cost_run.varValue[1] |->
                             IntOf(cost_run.varValue[1][e])])

(* C12: the max_lead_time of an Optimal time result is the largest catalog *)
(* lead time among the edges of the returned plan.                         *)
C12_MaxLeadTimeIsOverThePlanEdges ==
    (HasTimeResult /\ TimeResult.status = "Optimal") =>
        TimeResult.max_lead_time = Some(PlanMaxLead(TimeResult.solution))

(* An eligible edge slower than max_lead_time is left out of the plan. *)
C12_Witness ==
    /\ Returned
    /\ TimeResult.status = "Optimal"
    /\ \E e \in EligibleEdges :
           /\ e \notin PlanEntries(TimeResult.solution)
           /\ EdgeRow(e).lead_time > TimeResult.max_lead_time[1]
(* C13: every lookup for an edge uses the first catalog row of the edge:   *)
(* the cost coefficient of the cost objective, the lead time of the time   *)
(* program, and the cost and lead time of the recomputed totals.           *)
C13_LookupsUseTheFirstMatchingRow ==
    /\ cost_model # None =>
           \A e \in DOMAIN cost_model[1].objective :
               cost_model[1].objective[e] = EdgeRow(e).total_cost
    /\ time_model # None =>
           \A e \in DOMAIN time_model[1].lead_times :
               time_model[1].lead_times[e] = EdgeRow(e).lead_time
    /\ \A k \in DOMAIN results :
           results[k].status = "Optimal" =>
               results[k].total_cost = Some(PlanCost(results[k].solution))
    /\ (HasTimeResult /\ TimeResult.status = "Optimal") =>
           TimeResult.max_lead_time = Some(PlanMaxLead(TimeResult.solution))

(* The rows of a program that mention only edge e admit shipments[e] = n  *)
(* (for the time program, with some value of route_used[e]).               *)
OnlyOn(keys, e, n) == [k \in keys |-> IF k = e THEN n ELSE 0]

CostEdgeAdmits(program, e, n) ==
    CeilingHolds(program.rows, OnlyOn(SeqToSet(program.keys), e, n))

TimeEdgeAdmits(program, e, n) ==
    LET keys == SeqToSet(program.keys)
    IN  /\ CeilingHolds(program.rows, OnlyOn(keys, e, n))
        /\ \E u \in {0, 1} :
               LinkHolds(program, OnlyOn(keys, e, n), OnlyOn(keys, e, u))

(* C14: in both programs the per-edge rows admit every integer from 0 to   *)
(* max_vehicles[edge] for shipments[edge]: the ceiling is the only upper   *)
(* bound on an edge.                                                        *)
C14_CeilingIsTheOnlyUpperBound ==
    /\ cost_model # None =>
           \A e \in SeqToSet(cost_model[1].keys) :
               \A n \in 0..input_data.max_vehicles[e] :
                   CostEdgeAdmits(cost_model[1], e, n)
    /\ time_model # None =>
           \A e \in SeqToSet(time_model[1].keys) :
               \A n \in 0..input_data.max_vehicles[e] :
                   TimeEdgeAdmits(time_model[1], e, n)

(* C15: every plan is sparse: each stored count is an integer >= 1 on an   *)
(* eligible edge and no warehouse maps to an empty mapping.                *)
C15_PlansAreSparse ==
    \A k \in DOMAIN results :
        \A w \in DOMAIN results[k].solution :
            /\ DOMAIN results[k].solution[w] # {}
            /\ \A m \in DOMAIN results[k].solution[w] :
                   /\ results[k].solution[w][m] \in Nat \ {0}
                   /\ <<w, m>> \in EligibleEdges

(* An Optimal plan leaves out an eligible edge, and a whole warehouse. *)
C15_Witness ==
    /\ Returned
    /\ CostResult.status = "Optimal"
    /\ \E e \in EligibleEdges :
           /\ e \notin PlanEntries(CostResult.solution)
           /\ e[1] \notin DOMAIN CostResult.solution
    /\ \E e \in EligibleEdges :
           /\ e \notin PlanEntries(TimeResult.solution)
           /\ e[1] \in DOMAIN TimeResult.solution
(* C16: in every feasible assignment of the time program route_used[e] is  *)
(* 1 exactly when shipments[e] >= 1, for every edge.                       *)
C16_IndicatorAgreesWithShipments ==
    (pc = "time_built" /\ time_model # None) =>
        \A a \in TimeFeasible(time_model[1]) :
            \A e \in SeqToSet(time_model[1].keys) :
                /\ a.route_used[e] = 0 => a.shipments[e] = 0
                /\ a.shipments[e] >= 1 => a.route_used[e] = 1
                /\ a.route_used[e] = 1 <=> a.shipments[e] >= 1

(* A feasible assignment uses one edge and leaves another unused. *)
C16_Witness ==
    /\ pc = "time_built"
    /\ time_model # None
    /\ \E a \in TimeFeasible(time_model[1]) :
           /\ \E e \in SeqToSet(time_model[1].keys) : a.route_used[e] = 1
           /\ \E e \in SeqToSet(time_model[1].keys) : a.route_used[e] = 0

(* C17: with M = max lead time + 1, a used edge forces max_time >= its     *)
(* lead time and an unused edge nothing beyond max_time >= 0; the          *)
(* objective variable of an Optimal time run equals the largest lead time  *)
(* among the edges with shipments >= 1, and the recomputed max_lead_time.  *)
C17_MaxTimeEqualsRecomputedMaxLeadTime ==
    /\ time_model # None =>
           LET program == time_model[1]
               keys == SeqToSet(program.keys)
           IN  /\ program.M = SetMax({program.lead_times[e] : e \in keys}) + 1
               /\ \A e \in keys :
                      /\ LeastMaxTime(program, OnlyOn(keys, e, 1))
                             = program.lead_times[e]
                      /\ LeastMaxTime(program, OnlyOn(keys, e, 0)) = 0
    /\ (time_run # None /\ time_run.status = "Optimal") =>
           LET ships == time_run.varValue[1]
               used == {e \in DOMAIN ships : IntOf(ships[e]) >= 1}
           IN  /\ time_run.max_time =
                      Some(Scale * SetMax({0} \cup {EdgeRow(e).lead_time : e \in used}))
               /\ HasTimeResult =>
                      time_run.max_time = Some(Scale * TimeResult.max_lead_time[1])

(* The optimum leaves unused an edge slower than the ones it uses. *)
C17_Witness ==
    /\ Returned
    /\ TimeResult.status = "Optimal"
    /\ \E e \in SeqToSet(time_model[1].keys) :
           /\ time_run.varValue[1][e] = 0
           /\ time_model[1].lead_times[e] > TimeResult.max_lead_time[1]
(* The steps of one call of solve, as pairs of positions. *)
SolveSteps ==
    { <<"start", "cost_built">>,
      <<"cost_built", "time_build">>, <<"cost_built", "cost_solved">>,
      <<"cost_solved", "time_build">>,
      <<"time_build", "time_built">>,
      <<"time_built", "returned">>, <<"time_built", "time_solved">>,
      <<"time_solved", "returned">> }

BeforeTimeProgram == pc \in {"start", "cost_built", "cost_solved", "time_build"}

CallsOf(name) == Cardinality({i \in 1..Len(solver_calls) : solver_calls[i] = name})

(* Before "returned" some statement of solve is always next: the branches *)
(* on the model and on the status are exhaustive and the solver answers.   *)
NextStepExists ==
    /\ pc \in {"start", "cost_built", "cost_solved", "time_build", "time_built",
               "time_solved", "returned"}
    /\ (pc = "cost_built" /\ cost_model # None) =>
           SolveCostOutcomes(cost_model[1]) # {}
    /\ pc = "cost_solved" => cost_run # None /\ cost_model # None
    /\ (pc = "time_built" /\ time_model # None) =>
           SolveTimeOutcomes(time_model[1]) # {}
    /\ pc = "time_solved" => time_run # None /\ time_model # None

SolveCallShape ==
    /\ CallsOf("Cost_Minimization") =
           (IF pc \notin {"start", "cost_built"} /\ cost_model # None THEN 1 ELSE 0)
    /\ CallsOf("Time_Minimization") =
           (IF pc \in {"time_solved", "returned"} /\ time_model # None THEN 1 ELSE 0)
    /\ Len(solver_calls) = CallsOf("Cost_Minimization") + CallsOf("Time_Minimization")
    /\ (cost_model = None => cost_run = None) /\ (time_model = None => time_run = None)
    /\ BeforeTimeProgram => (time_model = None /\ time_run = None /\ ~HasTimeResult)
    /\ HasCostResult <=> pc \notin {"start", "cost_built", "cost_solved"}
    /\ HasTimeResult <=> Returned
    /\ pc # "start" =>
           cost_model = BuildCostModel(routes, warehouses, modes, input_data)
    /\ ~BeforeTimeProgram =>
           time_model = BuildTimeModel(routes, warehouses, modes, input_data)
    /\ Returned => DOMAIN results = {"cost_optimization", "time_optimization"}
    /\ NextStepExists

(* C18: one call of solve goes Start -> {no model | solved} -> extraction  *)
(* for the cost program and then for the time program, calls the solver at *)
(* most once per program, builds both programs from the catalog and the    *)
(* input alone, and always returns a result under both keys: every step    *)
(* moves forward along SolveSteps and only "returned" has no next step.    *)
C18_SolveIsOnePassAndTerminal ==
    /\ []SolveCallShape
    /\ [][/\ <<pc, pc'>> \in SolveSteps
          /\ UNCHANGED <<catalog, input_data>>
          /\ \A k \in DOMAIN results : k \in DOMAIN results' /\ results'[k] = results[k]]_vars

(* A call in which both programs went to the solver and neither came back  *)
(* Optimal: no retry, both results present.                                *)
C18_Witness ==
    /\ Returned
    /\ solver_calls = <<"Cost_Minimization", "Time_Minimization">>
    /\ CostResult.status # "Optimal"
    /\ TimeResult.status # "Optimal"
Called(name) == \E i \in 1..Len(calls) : calls[i] = name

(* C19: after a failed load_data the failure has been reported and main    *)
(* calls neither get_user_input nor solve.                                 *)
C19_FailedLoadNeverReachesTheCore ==
    load_result = Some(FALSE) =>
        /\ Called("st.error")
        /\ ~Called("get_user_input")
        /\ ~Called("solve")

(* The same, for solve alone. *)
C19_FailedLoadNeverReachesSolve ==
    load_result = Some(FALSE) => ~Called("solve")
(* C20: within one call of solve the two programs admit the same shipment  *)
(* assignments, so the cost status is Optimal iff the time status is.      *)
C20_StatusesAgree ==
    /\ (pc = "time_built" /\ cost_model # None /\ time_model # None) =>
           CostFeasible(cost_model[1])
               = {a.shipments : a \in TimeFeasible(time_model[1])}
    /\ Returned =>
           (CostResult.status = "Optimal" <=> TimeResult.status = "Optimal")

(* The same, for the statuses alone. *)
C20_TimeOptimalWheneverCostOptimal ==
    Returned => (CostResult.status = "Optimal" => TimeResult.status = "Optimal")
BothOptimal ==
    /\ Returned
    /\ CostResult.status = "Optimal"
    /\ TimeResult.status = "Optimal"

(* C21: when both results of a call are Optimal, the max_lead_time of the  *)
(* time result is at most the largest catalog lead time over the edges of  *)
(* the cost plan.                                                          *)
C21_TimePlanIsNeverSlower ==
    BothOptimal =>
        TimeResult.max_lead_time[1] <= PlanMaxLead(CostResult.solution)
====
